---- MODULE Spec2Model ----
(***************************************************************************)
(* A model of py-parser (src/src/app.py): a Flask service whose /parse     *)
(* handler turns a locator (git URL, file path, directory path) into a     *)
(* nested report of imports, classes, functions and statements.            *)
(*                                                                         *)
(* Encoding of Python values                                               *)
(*   str        a sequence of one-character strings, so that endswith,     *)
(*              rsplit, join, relpath and urlparse are computed            *)
(*   dict       a function whose domain is the set of keys present         *)
(*              (a defaultdict has exactly the keys that were touched)     *)
(*   list       a sequence                                                 *)
(*   AST node   a record whose field kind is the node's class name         *)
(*   the elements of a call's 'args' list are of mixed Python type and     *)
(*   carry a tag t: [t |-> "int" | "str" | "dict", v |-> value]            *)
(***************************************************************************)
EXTENDS Integers, Sequences, FiniteSets, TLC

VARIABLES
    files,            \* the local filesystem: path -> entry
    files_to_ignore,  \* the exclusion list imported from .ignore
    pc,               \* position of the request being served
    file_name,        \* request_data['fileName'] of the request being served
    temp_dirname,     \* the TemporaryDirectory of process_url, or NoDir
    result,           \* outcome of parse_source_file: a value or an exception
    response          \* what the /parse handler sends back

vars == <<files, files_to_ignore, pc, file_name, temp_dirname, result, response>>

----------------------------------------------------------------------------
(* Bounds of the model *)

\* longest list of leaf statements in a generated body
MaxBody == 2
\* deepest nesting of call expressions in a generated call argument
MaxCallDepth == 2

----------------------------------------------------------------------------
(* Python strings used by the program *)

IMPORTS == <<"i","m","p","o","r","t","s">>
CLASSES == <<"c","l","a","s","s","e","s">>
FUNCTIONS == <<"f","u","n","c","t","i","o","n","s">>
STATEMENTS == <<"s","t","a","t","e","m","e","n","t","s">>
NAME == <<"n","a","m","e">>
BASES == <<"b","a","s","e","s">>
ARGS == <<"a","r","g","s">>
TYPE == <<"t","y","p","e">>
FUNC == <<"f","u","n","c">>
KEYWORDS == <<"k","e","y","w","o","r","d","s">>
FUNCTION_CALL == <<"f","u","n","c","t","i","o","n","_","c","a","l","l">>
SHORT_NAME == <<"s","h","o","r","t","_","n","a","m","e">>
FULL_NAME == <<"f","u","l","l","_","n","a","m","e">>
DOT_PY == <<".","p","y">>
SEP == "/"

\* NodeType: the four report fields
NodeType == {IMPORTS, CLASSES, FUNCTIONS, STATEMENTS}

----------------------------------------------------------------------------
(* Syntax trees, as ast.parse builds them *)

Alias(n) == [kind |-> "alias", name |-> n]
Arg(n) == [kind |-> "arg", arg |-> n]
Keyword(n, v) == [kind |-> "keyword", arg |-> n, value |-> v]
Import(names) == [kind |-> "Import", names |-> names]
ImportFrom(m, names) == [kind |-> "ImportFrom", module |-> m, names |-> names]
ClassDef(n, bases, body) == [kind |-> "ClassDef", name |-> n, bases |-> bases, body |-> body]
FunctionDef(n, args, body) == [kind |-> "FunctionDef", name |-> n, args |-> args, body |-> body]
Expr(v) == [kind |-> "Expr", value |-> v]
Assign(targets, v) == [kind |-> "Assign", targets |-> targets, value |-> v]
If(test, body, orelse) == [kind |-> "If", test |-> test, body |-> body, orelse |-> orelse]
Pass == [kind |-> "Pass"]
Call(func, args, keywords) == [kind |-> "Call", func |-> func, args |-> args, keywords |-> keywords]
Name(id, ctx) == [kind |-> "Name", id |-> id, ctx |-> [kind |-> ctx]]
Attribute(v, attr) == [kind |-> "Attribute", value |-> v, attr |-> attr]
Subscript(v, s) == [kind |-> "Subscript", value |-> v, slice |-> s]
List(elts) == [kind |-> "List", elts |-> elts]
Num(n) == [kind |-> "Num", n |-> n]
Str(s) == [kind |-> "Str", s |-> s]
Module(body) == [kind |-> "Module", body |-> body]

\* what ast.parse does on text that is not Python
SyntaxError == [kind |-> "SyntaxError"]

----------------------------------------------------------------------------
(* Python containers *)

\* dict() and defaultdict(list) right after construction: no key present
EmptyDict == <<>>

\* node[key] = v
DictSet(node, key, v) ==
    [k \in (DOMAIN node) \cup {key} |-> IF k = key THEN v ELSE node[k]]

\* node[key].append(v) on a defaultdict(list): the key appears on first touch
DictAppend(node, key, v) ==
    IF key \in DOMAIN node
    THEN [node EXCEPT ![key] = Append(@, v)]
    ELSE DictSet(node, key, <<v>>)

----------------------------------------------------------------------------
(* Analyzer(ast.NodeVisitor) *)

RECURSIVE visit(_, _)
RECURSIVE visit_each(_, _)
RECURSIVE append_names(_, _)
RECURSIVE class_bases(_)
RECURSIVE function_args(_)
RECURSIVE call_args(_)
RECURSIVE call_keywords(_)

\* parse_node: a new Analyzer on the given report, one visit, the report back
parse_node(ast_node, node) == visit(ast_node, node)

\* for ast_child_node in body: parse_node(ast_child_node, node)
visit_each(nodes, node) ==
    IF nodes = <<>> THEN node
    ELSE visit_each(Tail(nodes), parse_node(Head(nodes), node))

\* faulty variant of iter_child_nodes: statements without a handler are not
\* entered, only the module and expression statements are
iter_child_nodes_shallow(n) ==
    CASE n.kind = "Module" -> n.body
      [] n.kind = "Expr" -> <<n.value>>
      [] OTHER -> <<>>

\* NodeVisitor.generic_visit reaches every child node, field by field
iter_child_nodes(n) ==
    CASE n.kind = "Module" -> n.body
      [] n.kind = "Expr" -> <<n.value>>
      [] n.kind = "Assign" -> n.targets \o <<n.value>>
      [] n.kind = "If" -> <<n.test>> \o n.body \o n.orelse
      [] n.kind = "Attribute" -> <<n.value>>
      [] n.kind = "Subscript" -> <<n.value, n.slice>>
      [] n.kind = "List" -> n.elts
      [] OTHER -> <<>>

generic_visit(ast_node, node) == visit_each(iter_child_nodes(ast_node), node)

\* faulty variant of append_names: the names of one statement end up reversed
RECURSIVE append_names_reversed(_, _)
append_names_reversed(names, node) ==
    IF names = <<>> THEN node
    ELSE DictAppend(append_names_reversed(Tail(names), node), IMPORTS, Head(names).name)

\* for alias in ast_node.names: self.node['imports'].append(alias.name)
append_names(names, node) ==
    IF names = <<>> THEN node
    ELSE append_names(Tail(names), DictAppend(node, IMPORTS, Head(names).name))

visit_Import(ast_node, node) == append_names(ast_node.names, node)

visit_ImportFrom(ast_node, node) == append_names(ast_node.names, node)

\* a base that is neither a Name nor an Attribute leaves nothing
class_bases(bases) ==
    IF bases = <<>> THEN <<>>
    ELSE LET base == Head(bases)
         IN  (CASE base.kind = "Name" -> <<base.id>>
                [] base.kind = "Attribute" -> <<base.attr>>
                [] OTHER -> <<>>) \o class_bases(Tail(bases))

visit_ClassDef(ast_node, node) ==
    LET named == DictSet(EmptyDict, NAME, ast_node.name)
        based == DictSet(named, BASES, class_bases(ast_node.bases))
    IN  DictAppend(node, CLASSES, visit_each(ast_node.body, based))

function_args(args) ==
    IF args = <<>> THEN <<>>
    ELSE <<Head(args).arg>> \o function_args(Tail(args))

visit_FunctionDef(ast_node, node) ==
    LET named == DictSet(EmptyDict, NAME, ast_node.name)
        arged == DictSet(named, ARGS, function_args(ast_node.args))
    IN  DictAppend(node, FUNCTIONS, visit_each(ast_node.body, arged))

\* faulty variant of call_func: func is set, to an empty name, for any other callee
call_func_always(func, node) ==
    CASE func.kind = "Name" -> DictSet(node, FUNC, func.id)
      [] func.kind = "Attribute" -> DictSet(node, FUNC, func.attr)
      [] OTHER -> DictSet(node, FUNC, <<>>)

\* node['func'] is set for a Name or an Attribute callee only
call_func(func, node) ==
    CASE func.kind = "Name" -> DictSet(node, FUNC, func.id)
      [] func.kind = "Attribute" -> DictSet(node, FUNC, func.attr)
      [] OTHER -> node

\* faulty variant of call_arg: a call among the arguments is dropped like any
\* other unsupported form
call_arg_flat(arg) ==
    CASE arg.kind = "Name" -> <<[t |-> "str", v |-> arg.id]>>
      [] arg.kind = "Num" -> <<[t |-> "int", v |-> arg.n]>>
      [] arg.kind = "Str" -> <<[t |-> "str", v |-> arg.s]>>
      [] OTHER -> <<>>

\* one argument of a call: what visit_Call appends for it, if anything
call_arg(arg) ==
    CASE arg.kind = "Name" -> <<[t |-> "str", v |-> arg.id]>>
      [] arg.kind = "Call" -> <<[t |-> "dict", v |-> parse_node(arg, EmptyDict)]>>
      [] arg.kind = "Num" -> <<[t |-> "int", v |-> arg.n]>>
      [] arg.kind = "Str" -> <<[t |-> "str", v |-> arg.s]>>
      [] OTHER -> <<>>

call_args(args) ==
    IF args = <<>> THEN <<>>
    ELSE call_arg(Head(args)) \o call_args(Tail(args))

call_keywords(keywords) ==
    IF keywords = <<>> THEN <<>>
    ELSE <<Head(keywords).arg>> \o call_keywords(Tail(keywords))

visit_Call(ast_node, node) ==
    LET typed == DictSet(EmptyDict, TYPE, FUNCTION_CALL)
        funced == call_func(ast_node.func, typed)
        arged == DictSet(funced, ARGS, call_args(ast_node.args))
        keyed == DictSet(arged, KEYWORDS, call_keywords(ast_node.keywords))
    IN  DictAppend(node, STATEMENTS, keyed)

visit_Name(ast_node, node) ==
    LET named == DictSet(EmptyDict, NAME, ast_node.id)
        typed == DictSet(named, TYPE, ast_node.ctx)
    IN  DictAppend(node, STATEMENTS, typed)

\* NodeVisitor.visit: visit_<class name> when the Analyzer has it
visit(ast_node, node) ==
    CASE ast_node.kind = "Import" -> visit_Import(ast_node, node)
      [] ast_node.kind = "ImportFrom" -> visit_ImportFrom(ast_node, node)
      [] ast_node.kind = "ClassDef" -> visit_ClassDef(ast_node, node)
      [] ast_node.kind = "FunctionDef" -> visit_FunctionDef(ast_node, node)
      [] ast_node.kind = "Call" -> visit_Call(ast_node, node)
      [] ast_node.kind = "Name" -> visit_Name(ast_node, node)
      [] OTHER -> generic_visit(ast_node, node)

----------------------------------------------------------------------------
(* str operations *)

\* s.endswith(suffix)
endswith(s, suffix) ==
    /\ Len(s) >= Len(suffix)
    /\ SubSeq(s, Len(s) - Len(suffix) + 1, Len(s)) = suffix

\* s.find(c) + 1: the place of the first c, 0 when there is none
find(s, c) ==
    IF \E i \in 1..Len(s) : s[i] = c
    THEN CHOOSE i \in 1..Len(s) : s[i] = c /\ \A j \in 1..(i - 1) : s[j] # c
    ELSE 0

\* s.rfind(c) + 1: the place of the last c, 0 when there is none
rfind(s, c) ==
    IF \E i \in 1..Len(s) : s[i] = c
    THEN CHOOSE i \in 1..Len(s) : s[i] = c /\ \A j \in (i + 1)..Len(s) : s[j] # c
    ELSE 0

\* s.rsplit('/', 1)[-1]: what follows the last '/', all of s when it has none
rsplit_last(s) == SubSeq(s, rfind(s, SEP) + 1, Len(s))

\* urlparse(url).scheme: what precedes the first ':', when that is not empty
urlparse_scheme(url) ==
    IF find(url, ":") > 1 THEN SubSeq(url, 1, find(url, ":") - 1) ELSE <<>>

\* os.path.basename
basename(path) == SubSeq(path, rfind(path, SEP) + 1, Len(path))

\* os.path.join(a, b) for a relative b
join(a, b) == IF endswith(a, <<SEP>>) THEN a \o b ELSE a \o <<SEP>> \o b

\* os.path.relpath(path, start) for a path below start
relpath(path, start) == SubSeq(path, Len(start) + 2, Len(path))

----------------------------------------------------------------------------
(* The filesystem *)

Dir(names) == [kind |-> "dir", names |-> names]
File(parsed) == [kind |-> "file", parsed |-> parsed]

\* os.path.isfile, os.path.isdir
isfile(fs, path) == path \in DOMAIN fs /\ fs[path].kind = "file"
isdir(fs, path) == path \in DOMAIN fs /\ fs[path].kind = "dir"

\* glob.iglob(os.path.join(real_name, '*')): the children whose name does not
\* start with a dot, in the directory's enumeration order
RECURSIVE glob_star(_, _)
glob_star(real_name, names) ==
    IF names = <<>> THEN <<>>
    ELSE (IF Head(names)[1] = "." THEN <<>> ELSE <<join(real_name, Head(names))>>)
         \o glob_star(real_name, Tail(names))

----------------------------------------------------------------------------
(* Outcomes of a call: a returned value or a raised exception.  shape names
   the Python type of the value: None, a report dict, a project dict, a list *)

Return(shape, v) == [raised |-> FALSE, shape |-> shape, value |-> v]
Raise(e) == [raised |-> TRUE, error |-> e]
None == <<>>

\* process_regular_file
process_regular_file(fs, path) ==
    IF ~endswith(path, DOT_PY) THEN Return("None", None)
    ELSE IF fs[path].parsed = SyntaxError THEN Raise("SyntaxError")
    ELSE Return("report", parse_node(fs[path].parsed, EmptyDict))

\* the three keys process_directory adds to a file's report
file_entry(processed_node, file, simple_name) ==
    DictSet(DictSet(DictSet(processed_node, SHORT_NAME, basename(file)),
                    NAME, simple_name), FULL_NAME, file)

\* faulty variant of not_ignored: the base name is looked up, not the name
\* relative to the walk root
not_ignored_by_basename(simple_name, ignore) == basename(simple_name) \notin ignore

\* if simple_name not in files_to_ignore
not_ignored(simple_name, ignore) == simple_name \notin ignore

\* faulty variant of file_failed: the exception is swallowed, the walk goes on
file_skipped(raised, package_nodes, rest) == rest

\* what an exception raised while a file of the walk is processed does to the walk
file_failed(raised, package_nodes, rest) == raised

RECURSIVE process_directory(_, _, _, _)
RECURSIVE walk(_, _, _, _, _)

\* the loop of process_directory over the globbed paths, package_nodes so far
walk(fs, ignore, root_name, paths, package_nodes) ==
    IF paths = <<>> THEN Return("list", package_nodes)
    ELSE
    LET file == Head(paths)
        simple_name == relpath(file, root_name)
    IN  IF isfile(fs, file) /\ endswith(file, DOT_PY)
        THEN LET processed == process_regular_file(fs, file)
             IN  IF processed.raised
                 THEN file_failed(processed, package_nodes,
                                  walk(fs, ignore, root_name, Tail(paths), package_nodes))
                 ELSE walk(fs, ignore, root_name, Tail(paths),
                           Append(package_nodes,
                                  file_entry(processed.value, file, simple_name)))
        ELSE IF isdir(fs, file) /\ not_ignored(simple_name, ignore)
        THEN LET child_nodes == process_directory(fs, ignore, root_name, file)
             IN  IF child_nodes.raised THEN child_nodes
                 ELSE walk(fs, ignore, root_name, Tail(paths),
                           IF child_nodes.value # <<>>
                           THEN Append(package_nodes, (simple_name :> child_nodes.value))
                           ELSE package_nodes)
        ELSE walk(fs, ignore, root_name, Tail(paths), package_nodes)

process_directory(fs, ignore, root_name, real_name) ==
    walk(fs, ignore, root_name, glob_star(real_name, fs[real_name].names), <<>>)

\* what parse_source_file returns when no branch is taken
fall_through == Return("None", None)

\* parse_source_file below its URL branch; project_name <<>> is None or ''
parse_local(fs, ignore, path, project_name) ==
    IF isfile(fs, path) THEN process_regular_file(fs, path)
    ELSE IF isdir(fs, path)
    THEN LET nodes == process_directory(fs, ignore, path, path)
             key == IF project_name = <<>> THEN basename(path) ELSE project_name
         IN  IF nodes.raised THEN nodes
             ELSE Return("project", (key :> nodes.value))
    ELSE fall_through

----------------------------------------------------------------------------
(* to_json and the response of the /parse handler *)

RECURSIVE report_has_ctx(_)
RECURSIVE any_has_ctx(_)
RECURSIVE entries_have_ctx(_)

\* a NameRef statement holds ast_node.ctx, an object json.dumps cannot encode
statement_has_ctx(st) ==
    \/ ARGS \notin DOMAIN st
    \/ \E i \in 1..Len(st[ARGS]) :
          st[ARGS][i].t = "dict" /\ report_has_ctx(st[ARGS][i].v)

any_has_ctx(nodes) ==
    nodes # <<>> /\ (report_has_ctx(Head(nodes)) \/ any_has_ctx(Tail(nodes)))

report_has_ctx(node) ==
    \/ STATEMENTS \in DOMAIN node
       /\ \E i \in 1..Len(node[STATEMENTS]) : statement_has_ctx(node[STATEMENTS][i])
    \/ CLASSES \in DOMAIN node /\ any_has_ctx(node[CLASSES])
    \/ FUNCTIONS \in DOMAIN node /\ any_has_ctx(node[FUNCTIONS])

entries_have_ctx(package_nodes) ==
    /\ package_nodes # <<>>
    /\ LET e == Head(package_nodes)
       IN  \/ IF FULL_NAME \in DOMAIN e THEN report_has_ctx(e)
              ELSE \E k \in DOMAIN e : entries_have_ctx(e[k])
           \/ entries_have_ctx(Tail(package_nodes))

\* json.dumps(data, separators=(',', ':'))
to_json(out) ==
    CASE out.shape = "None" -> Return("json", <<"n","u","l","l">>)
      [] out.shape = "report" ->
            IF report_has_ctx(out.value) THEN Raise("TypeError")
            ELSE Return("json", out.value)
      [] out.shape = "project" ->
            IF \E k \in DOMAIN out.value : entries_have_ctx(out.value[k])
            THEN Raise("TypeError")
            ELSE Return("json", out.value)

\* Flask: the handler's return value, or a server error for an uncaught exception
respond(out) ==
    IF out.raised THEN [status |-> 500, body |-> None]
    ELSE LET js == to_json(out)
         IN  IF js.raised THEN [status |-> 500, body |-> None]
             ELSE [status |-> 200, body |-> js.value]

----------------------------------------------------------------------------
(* TemporaryDirectory *)

NoDir == <<>>
NoResult == [raised |-> FALSE, shape |-> "pending", value |-> None]
NoResponse == [status |-> 0, body |-> None]

is_below(path, dir) ==
    path = dir \/ (Len(path) > Len(dir) /\ SubSeq(path, 1, Len(dir) + 1) = dir \o <<SEP>>)

\* TemporaryDirectory.cleanup: the directory and all below it are removed
cleanup(fs, dirname) ==
    [path \in {q \in DOMAIN fs : ~is_below(q, dirname)} |-> fs[path]]

\* leaving the with block by a return
exit_on_return(fs, dirname) == cleanup(fs, dirname)

\* faulty variant of exit_on_exception: the directory is left behind
exit_without_cleanup(fs, dirname) == fs

\* leaving the with block by an exception
exit_on_exception(fs, dirname) == cleanup(fs, dirname)

\* the project name process_url hands on: git_url.rsplit('/', 1)[-1]
url_project_name(git_url) == rsplit_last(git_url)

----------------------------------------------------------------------------
(* Source texts: the trees ast.parse yields for them *)

NameX == Name(<<"x">>, "Load")
Num1 == Num(1)
StrA == Str(<<"a">>)
CallG == Call(Name(<<"g">>, "Load"), <<NameX>>, <<>>)
ListOfCall == List(<<CallG>>)
BarCall == Call(Name(<<"b","a","r">>, "Load"), <<Num1, StrA>>, <<>>)

\* callee expressions: bar, o.m, t[0], mk()
Callees ==
    { Name(<<"b","a","r">>, "Load"),
      Attribute(Name(<<"o">>, "Load"), <<"m">>),
      Subscript(Name(<<"t">>, "Load"), Num(0)),
      Call(Name(<<"m","k">>, "Load"), <<>>, <<>>) }

\* calls whose arguments hold calls nested d deep
RECURSIVE CallsAt(_)
CallsAt(d) ==
    IF d = 0
    THEN { Call(f, args, kw) :
             f \in Callees,
             args \in {<<>>, <<Num1, StrA>>, <<NameX, ListOfCall>>},
             kw \in {<<>>, <<Keyword(<<"k">>, CallG)>>} }
    ELSE { Call(Name(<<"b","a","r">>, "Load"), <<c>>, <<>>) : c \in CallsAt(d - 1) }
         \cup
         { Call(Attribute(Name(<<"o">>, "Load"), <<"m">>), <<Num1, c, CallG>>, <<>>) :
             c \in CallsAt(d - 1) }

Calls == UNION { CallsAt(d) : d \in 0..MaxCallDepth }

ImportOs == Import(<<Alias(<<"o","s">>)>>)
ImportFromPQ == ImportFrom(<<"m">>, <<Alias(<<"p">>), Alias(<<"q">>)>>)

\* import os / from m import p, q / bar(1, 'a') / x / y = g(x) / pass
Leaf ==
    { ImportOs, ImportFromPQ, Expr(BarCall), Expr(NameX),
      Assign(<<Name(<<"y">>, "Store")>>, CallG), Pass }

Bodies0 == UNION { [1..n -> Leaf] : n \in 0..MaxBody }

\* a compound statement or a definition around a body (never an empty one)
Compound1 ==
    UNION { { If(CallG, b, <<>>),
              If(NameX, <<Pass>>, b),
              ClassDef(<<"A">>, <<Name(<<"B","a","s","e">>, "Load")>>, b),
              ClassDef(<<"A">>, <<Attribute(Name(<<"m">>, "Load"), <<"B">>), CallG>>, b),
              FunctionDef(<<"f">>, <<Arg(<<"s","e","l","f">>), Arg(<<"x">>)>>, b) } :
            b \in Bodies0 \ {<<>>} }

Bodies1 == UNION { { <<s>>, <<ImportOs, s>>, <<s, ImportFromPQ>> } : s \in Compound1 }

Compound2 ==
    UNION { { ClassDef(<<"A">>, <<Name(<<"B","a","s","e">>, "Load")>>, <<s>>),
              FunctionDef(<<"g">>, <<>>, <<s>>) } : s \in Compound1 }

Bodies2 == UNION { { <<s>>, <<ImportOs, s>> } : s \in Compound2 }

BodiesOfCalls == { <<Expr(c)>> : c \in Calls }

Modules == { Module(b) : b \in Bodies0 \cup Bodies1 \cup Bodies2 \cup BodiesOfCalls }

\* import os / class A(Base): / def f(self, x): / bar(1, 'a')
GoodModule ==
    Module(<<ImportOs,
             ClassDef(<<"A">>, <<Name(<<"B","a","s","e">>, "Load")>>,
                      <<FunctionDef(<<"f">>, <<Arg(<<"s","e","l","f">>), Arg(<<"x">>)>>,
                                    <<Expr(BarCall)>>)>>)>>)

----------------------------------------------------------------------------
(* Filesystems, requests and repositories *)

P == <<"p">>
A_PY == <<"a",".","p","y">>
B_PY == <<"b",".","p","y">>
C_PY == <<"c",".","p","y">>
N_TXT == <<"n",".","t","x","t">>
V == <<"v">>
K == <<"k">>
K_V == <<"k","/","v">>
DOT_GIT == <<".","g","i","t">>
M_PY == <<"m",".","p","y">>
M_TXT == <<"m",".","t","x","t">>
HTTP == <<"h","t","t","p">>
HTTPS == <<"h","t","t","p","s">>

Parsed(c) == IF c = "good" THEN GoodModule ELSE SyntaxError
Opt(cond, x) == IF cond THEN x ELSE <<>>

\* a project tree at root: a.py, n.txt, v/c.py, k/b.py, k/v/c.py, as c has them
Layout(root, c) ==
    LET v == join(root, V)
        k == join(root, K)
        kv == join(k, V)
    IN  (root :> Dir(Opt(c.git, <<DOT_GIT>>) \o Opt(c.a # "none", <<A_PY>>) \o <<N_TXT>>
                     \o Opt(c.v # "none", <<V>>) \o Opt(c.k, <<K>>)))
        @@ (join(root, N_TXT) :> File(SyntaxError))
        @@ Opt(c.git, join(root, DOT_GIT) :> Dir(<<>>))
        @@ Opt(c.a # "none", join(root, A_PY) :> File(Parsed(c.a)))
        @@ Opt(c.v # "none", (v :> Dir(<<C_PY>>)) @@ (join(v, C_PY) :> File(Parsed(c.v))))
        @@ Opt(c.k, k :> Dir(Opt(c.b # "none", <<B_PY>>) \o Opt(c.kv # "none", <<V>>)))
        @@ Opt(c.k /\ c.b # "none", join(k, B_PY) :> File(Parsed(c.b)))
        @@ Opt(c.k /\ c.kv # "none", kv :> Dir(Opt(c.kv # "empty", <<C_PY>>)))
        @@ Opt(c.k /\ c.kv \in {"good", "bad"}, join(kv, C_PY) :> File(Parsed(c.kv)))

Layouts ==
    { c \in [git : {FALSE}, a : {"none", "good", "bad"}, v : {"none", "good", "bad"},
             k : BOOLEAN, b : {"none", "good"}, kv : {"none", "empty", "good", "bad"}] :
        ~c.k => (c.b = "none" /\ c.kv = "none") }

\* what a clone can bring: a work tree with its .git directory
Repositories ==
    { c \in [git : {TRUE}, a : {"good", "bad"}, v : {"none", "good"},
             k : BOOLEAN, b : {"none"}, kv : {"none", "good"}] :
        ~c.k => c.kv = "none" }

IgnoreLists == { {}, {V}, {K_V}, {V, K_V}, {K} }

TempNames == { <<"/","t","/","x","1">>, <<"/","t","/","x","2">> }

Urls ==
    { HTTPS \o <<":","/","/","h","/","r">>,
      HTTPS \o <<":","/","/","h","/","r","/">>,
      HTTP \o <<":","/","/","h","/","r">> }

Paths ==
    { P, join(P, A_PY), join(P, N_TXT), join(P, K), <<"q">>,
      <<"f","t","p",":","/","/","h","/","r">> }

----------------------------------------------------------------------------
(* The /parse handler *)

is_url(name) == urlparse_scheme(name) \in {HTTP, HTTPS}

\* parser() on a locator that is no URL: parse_source_file, then to_json
ParseLocal(name) ==
    /\ pc = "idle"
    /\ ~is_url(name)
    /\ file_name' = name
    /\ result' = parse_local(files, files_to_ignore, name, None)
    /\ response' = respond(result')
    /\ pc' = "done"
    /\ UNCHANGED <<files, files_to_ignore, temp_dirname>>

\* parser() on a URL, up to the entry of process_url's with block
EnterUrl(name, dirname) ==
    /\ pc = "idle"
    /\ is_url(name)
    /\ dirname \notin DOMAIN files
    /\ file_name' = name
    /\ temp_dirname' = dirname
    /\ files' = (dirname :> Dir(<<>>)) @@ files
    /\ pc' = "clone"
    /\ UNCHANGED <<files_to_ignore, result, response>>

\* Repo.clone_from fills the temporary directory
CloneOk(repo) ==
    /\ pc = "clone"
    /\ files' = Layout(temp_dirname, repo) @@ files
    /\ pc' = "analyse"
    /\ UNCHANGED <<files_to_ignore, file_name, temp_dirname, result, response>>

\* Repo.clone_from raises: the exception leaves the with block and the handler
CloneFail ==
    /\ pc = "clone"
    /\ files' = exit_on_exception(files, temp_dirname)
    /\ result' = Raise("GitCommandError")
    /\ response' = respond(result')
    /\ pc' = "done"
    /\ UNCHANGED <<files_to_ignore, file_name, temp_dirname>>

\* parse_source_file(temp_dirname, git_url.rsplit('/', 1)[-1]), the with block
\* left by its return or by its exception, then to_json
Analyse ==
    /\ pc = "analyse"
    /\ result' = parse_local(files, files_to_ignore, temp_dirname,
                             url_project_name(file_name))
    /\ files' = IF result'.raised
                THEN exit_on_exception(files, temp_dirname)
                ELSE exit_on_return(files, temp_dirname)
    /\ response' = respond(result')
    /\ pc' = "done"
    /\ UNCHANGED <<files_to_ignore, file_name, temp_dirname>>

\* the response is sent; the worker waits for the next request
NextRequest ==
    /\ pc = "done"
    /\ pc' = "idle"
    /\ file_name' = <<>>
    /\ temp_dirname' = NoDir
    /\ result' = NoResult
    /\ response' = NoResponse
    /\ UNCHANGED <<files, files_to_ignore>>

Idle ==
    /\ pc = "idle"
    /\ file_name = <<>>
    /\ temp_dirname = NoDir
    /\ result = NoResult
    /\ response = NoResponse

\* the service over project trees
Init ==
    /\ Idle
    /\ files \in { Layout(P, c) : c \in Layouts }
    /\ files_to_ignore \in IgnoreLists

Next ==
    \/ \E name \in Paths : ParseLocal(name)
    \/ \E name \in Urls, dirname \in TempNames : EnterUrl(name, dirname)
    \/ \E repo \in Repositories : CloneOk(repo)
    \/ CloneFail
    \/ Analyse
    \/ NextRequest

Spec == Init /\ [][Next]_vars

\* the service asked for single files of every generated source text
InitAnalyzer ==
    /\ Idle
    /\ files \in { (M_PY :> File(t)) : t \in Modules \cup {SyntaxError} }
               \cup { (M_TXT :> File(GoodModule)) }
    /\ files_to_ignore = {}

NextAnalyzer ==
    \/ \E name \in DOMAIN files : ParseLocal(name)
    \/ NextRequest

SpecAnalyzer == InitAnalyzer /\ [][NextAnalyzer]_vars

----------------------------------------------------------------------------
(* Reading a source tree and a report side by side *)

Min(a, b) == IF a <= b THEN a ELSE b
Zip(a, b) == [i \in 1..Min(Len(a), Len(b)) |-> <<a[i], b[i]>>]
Get(node, key) == IF key \in DOMAIN node THEN node[key] ELSE <<>>
OfKind(nodes, kinds) == SelectSeq(nodes, LAMBDA n : n.kind \in kinds)

Handled == {"Import", "ImportFrom", "ClassDef", "FunctionDef", "Call", "Name"}

\* the child nodes of a node without a handler, in the order of the text
source_children(n) ==
    CASE n.kind = "Expr" -> <<n.value>>
      [] n.kind = "Assign" -> n.targets \o <<n.value>>
      [] n.kind = "If" -> <<n.test>> \o n.body \o n.orelse
      [] n.kind = "Attribute" -> <<n.value>>
      [] n.kind = "Subscript" -> <<n.value, n.slice>>
      [] n.kind = "List" -> n.elts
      [] OTHER -> <<>>

\* the nodes of a scope that have a handler and lie below no other such node,
\* in the order of the text
RECURSIVE scope_nodes(_)
scope_nodes(nodes) ==
    IF nodes = <<>> THEN <<>>
    ELSE (IF Head(nodes).kind \in Handled THEN <<Head(nodes)>>
          ELSE scope_nodes(source_children(Head(nodes))))
         \o scope_nodes(Tail(nodes))

RECURSIVE imported_names(_)
imported_names(nodes) ==
    IF nodes = <<>> THEN <<>>
    ELSE [i \in 1..Len(Head(nodes).names) |-> Head(nodes).names[i].name]
         \o imported_names(Tail(nodes))

\* every scope of a source text with the report made for it: the file, and by
\* position each class and function of a scope with its ClassNode or FunctionNode
RECURSIVE scopes(_, _)
RECURSIVE scopes_of(_)
scopes_of(pairs) ==
    IF pairs = <<>> THEN <<>>
    ELSE scopes(Head(pairs)[1].body, Head(pairs)[2]) \o scopes_of(Tail(pairs))

scopes(body, node) ==
    <<<<body, node>>>>
    \o scopes_of(Zip(OfKind(scope_nodes(body), {"ClassDef"}), Get(node, CLASSES)))
    \o scopes_of(Zip(OfKind(scope_nodes(body), {"FunctionDef"}), Get(node, FUNCTIONS)))

\* the Call entries among the statements of a report
call_entries(node) == SelectSeq(Get(node, STATEMENTS), LAMBDA e : ARGS \in DOMAIN e)

\* the Call fragments embedded in the args of a Call entry
fragments(entry) == SelectSeq(entry[ARGS], LAMBDA e : e.t = "dict")

\* a call expression with its entry, and by position each call among its
\* arguments with the entry of the fragment embedded for it
RECURSIVE call_pairs(_, _)
RECURSIVE call_pairs_of(_)
call_pairs_of(pairs) ==
    IF pairs = <<>> THEN <<>>
    ELSE (IF call_entries(Head(pairs)[2].v) = <<>> THEN <<>>
          ELSE call_pairs(Head(pairs)[1], call_entries(Head(pairs)[2].v)[1]))
         \o call_pairs_of(Tail(pairs))

call_pairs(call, entry) ==
    <<<<call, entry>>>> \o call_pairs_of(Zip(OfKind(call.args, {"Call"}), fragments(entry)))

RECURSIVE all_call_pairs(_)
all_call_pairs(pairs) ==
    IF pairs = <<>> THEN <<>>
    ELSE call_pairs(Head(pairs)[1], Head(pairs)[2]) \o all_call_pairs(Tail(pairs))

\* every call expression the analysis reaches, with its entry
RECURSIVE reached_calls(_)
reached_calls(scs) ==
    IF scs = <<>> THEN <<>>
    ELSE all_call_pairs(Zip(OfKind(scope_nodes(Head(scs)[1]), {"Call"}),
                            call_entries(Head(scs)[2])))
         \o reached_calls(Tail(scs))

RECURSIVE source_depth(_)
RECURSIVE max_source_depth(_)
max_source_depth(calls) ==
    IF calls = <<>> THEN 0
    ELSE LET d == source_depth(Head(calls))
             r == max_source_depth(Tail(calls))
         IN  IF d >= r THEN d ELSE r

\* how deep calls nest in the arguments of a call expression
source_depth(call) == 1 + max_source_depth(OfKind(call.args, {"Call"}))

RECURSIVE report_depth(_)
RECURSIVE max_report_depth(_)
max_report_depth(frags) ==
    IF frags = <<>> THEN 0
    ELSE LET es == call_entries(Head(frags).v)
             d == IF es = <<>> THEN 0 ELSE report_depth(es[1])
             r == max_report_depth(Tail(frags))
         IN  IF d >= r THEN d ELSE r

\* how deep Call fragments nest in the args of a Call entry
report_depth(entry) == 1 + max_report_depth(fragments(entry))

\* the request served was for one source file that parsed
Analysed ==
    /\ pc = "done"
    /\ isfile(files, file_name)
    /\ ~result.raised
    /\ result.shape = "report"

TheScopes == scopes(files[file_name].parsed.body, result.value)
TheCalls == reached_calls(TheScopes)

----------------------------------------------------------------------------
(* Claims about the analyzer, under SpecAnalyzer *)

RECURSIVE all_fields(_)
RECURSIVE all_have_fields(_)
all_have_fields(nodes) ==
    nodes = <<>> \/ (all_fields(Head(nodes)) /\ all_have_fields(Tail(nodes)))

\* a report with its four fields, and so every report embedded in it
all_fields(node) ==
    /\ NodeType \subseteq DOMAIN node
    /\ all_have_fields(node[CLASSES])
    /\ all_have_fields(node[FUNCTIONS])
    /\ \A i \in 1..Len(call_entries(node)) :
          \A j \in 1..Len(fragments(call_entries(node)[i])) :
             all_fields(fragments(call_entries(node)[i])[j].v)

\* C1: every report the analysis produces, the file's and each one embedded in
\* a class, a function or a call argument, has the four fields imports,
\* classes, functions and statements, empty when the scope has nothing for it.
C1_EveryReportHasFourFields == Analysed => all_fields(result.value)

C7_ImportsInTextOrder ==
    Analysed =>
        \A i \in 1..Len(TheScopes) :
           Get(TheScopes[i][2], IMPORTS) =
               imported_names(OfKind(scope_nodes(TheScopes[i][1]), {"Import", "ImportFrom"}))

\* a scope with an Import and an ImportFrom of two names has been analysed
C7_Witness ==
    /\ Analysed
    /\ \E i \in 1..Len(TheScopes) :
          Get(TheScopes[i][2], IMPORTS) = <<<<"p">>, <<"q">>, <<"o","s">>>>

\* C8: a call whose arguments are calls has, in its entry's args, one Call
\* fragment per call argument, each holding that call's entry, level by level:
\* the fragments nest as deep as the calls do.
C8_CallNestingPreserved ==
    Analysed =>
        \A i \in 1..Len(TheCalls) :
           LET call == TheCalls[i][1]
               entry == TheCalls[i][2]
           IN  /\ Len(fragments(entry)) = Len(OfKind(call.args, {"Call"}))
               /\ \A j \in 1..Len(fragments(entry)) :
                     /\ DOMAIN fragments(entry)[j].v = {STATEMENTS}
                     /\ Len(call_entries(fragments(entry)[j].v)) = 1
               /\ report_depth(entry) = source_depth(call)

\* a call nested three deep has been analysed
C8_Witness ==
    /\ Analysed
    /\ \E i \in 1..Len(TheCalls) :
          source_depth(TheCalls[i][1]) = 3 /\ report_depth(TheCalls[i][2]) = 3

\* C10 as claimed: every Call entry has func, args and keywords, whatever the
\* callee expression is.
C10_EveryCallHasFunc ==
    Analysed =>
        \A i \in 1..Len(TheCalls) : {FUNC, ARGS, KEYWORDS} \subseteq DOMAIN TheCalls[i][2]

\* C10 as amended: every Call entry has type, args and keywords; it has func,
\* the identifier or the attribute's last segment, exactly when the callee is
\* a plain identifier or an attribute access, and no func otherwise.
C10_FuncOnlyForNamedCallee ==
    Analysed =>
        \A i \in 1..Len(TheCalls) :
           LET func == TheCalls[i][1].func
               entry == TheCalls[i][2]
           IN  /\ {TYPE, ARGS, KEYWORDS} \subseteq DOMAIN entry
               /\ func.kind = "Name" => FUNC \in DOMAIN entry /\ entry[FUNC] = func.id
               /\ func.kind = "Attribute" => FUNC \in DOMAIN entry /\ entry[FUNC] = func.attr
               /\ func.kind \notin {"Name", "Attribute"} => FUNC \notin DOMAIN entry

\* a call of a subscript, nested in an argument, has been analysed
C10_Witness ==
    /\ Analysed
    /\ \E i \in 1..Len(TheCalls) :
          /\ TheCalls[i][1].func.kind = "Subscript"
          /\ FUNC \notin DOMAIN TheCalls[i][2]
          /\ i > 1

----------------------------------------------------------------------------
(* Claims about the service, under Spec *)

\* a directory listing names a path at or below dir (both relative to the walk
\* root): as the key of a directory entry or as the name of a file entry
RECURSIVE lists(_, _)
lists(package_nodes, dir) ==
    \E i \in 1..Len(package_nodes) :
       LET e == package_nodes[i]
       IN  IF FULL_NAME \in DOMAIN e THEN is_below(e[NAME], dir)
           ELSE \E k \in DOMAIN e : is_below(k, dir) \/ lists(e[k], dir)

\* the .py files a walk from root meets: below root, under no directory whose
\* name relative to root is in the exclusion list, on no path with a dot name
met_by_walk(fs, ignore, root) ==
    { path \in DOMAIN fs :
        /\ isfile(fs, path)
        /\ endswith(path, DOT_PY)
        /\ is_below(path, root) /\ path # root
        /\ \A d \in ignore : ~is_below(relpath(path, root), d)
        /\ \A i \in 1..(Len(path) - 1) : ~(path[i] = SEP /\ path[i + 1] = ".") }

\* the request served was for a local directory
WalkedLocal == pc = "done" /\ temp_dirname = NoDir /\ isdir(files, file_name)

\* C2: the listing process_directory(root, root) returns has no entry, directory
\* key or file beneath, for a directory whose name relative to the root is an
\* element of the exclusion list, at any depth; and the walk does not enter
\* it: a file in it that does not parse does not fail the walk.
C2_ExcludedDirectoryAbsent ==
    /\ (pc = "done" /\ ~result.raised /\ result.shape = "project") =>
          \A key \in DOMAIN result.value, d \in files_to_ignore :
             ~lists(result.value[key], d)
    /\ (WalkedLocal /\ result.raised) =>
          \E path \in met_by_walk(files, files_to_ignore, file_name) :
             files[path].parsed = SyntaxError

\* a walk has passed over the excluded k/v, which holds a file that does not
\* parse, and listed its sibling k/b.py
C2_Witness ==
    /\ WalkedLocal
    /\ file_name = P
    /\ K_V \in files_to_ignore
    /\ isfile(files, join(join(P, K_V), C_PY))
    /\ files[join(join(P, K_V), C_PY)].parsed = SyntaxError
    /\ ~result.raised
    /\ lists(result.value[P], join(K, B_PY))

\* C3: a locator that is no http(s) URL, no existing file and no existing
\* directory makes parse_source_file fail; it returns no value.
C3_UnresolvedLocatorFails ==
    (/\ pc = "done"
     /\ ~is_url(file_name)
     /\ ~isfile(files, file_name)
     /\ ~isdir(files, file_name)) => result.raised

\* C4: once process_url has ended, by the return of the analysis, by a failed
\* clone or by a failed analysis, its temporary directory and all it held are
\* gone.
C4_TemporaryDirectoryRemoved ==
    pc \in {"done", "idle"} =>
        \A path \in DOMAIN files, dirname \in TempNames : ~is_below(path, dirname)

\* process_url has ended by the failure of the analysis of a cloned file
C4_Witness ==
    /\ pc = "done"
    /\ temp_dirname \in TempNames
    /\ result.raised
    /\ result.error = "SyntaxError"
    /\ temp_dirname \notin DOMAIN files

\* C5: when one file the walk meets does not parse, parse_source_file of the
\* directory fails with that error: no result is returned, not even for the
\* files analysed before it, and the handler answers with a server error.
\* The same holds of the walk over a clone that is about to be analysed.
C5_OneBadFileFailsTheWalk ==
    /\ (/\ WalkedLocal
        /\ \E path \in met_by_walk(files, files_to_ignore, file_name) :
              files[path].parsed = SyntaxError)
       => (result = Raise("SyntaxError") /\ response = [status |-> 500, body |-> None])
    /\ (/\ pc = "analyse"
        /\ \E path \in met_by_walk(files, files_to_ignore, temp_dirname) :
              files[path].parsed = SyntaxError)
       => parse_local(files, files_to_ignore, temp_dirname,
                      url_project_name(file_name)) = Raise("SyntaxError")

\* a walk has failed on v/c.py after a.py was analysed
C5_Witness ==
    /\ WalkedLocal
    /\ file_name = P
    /\ isfile(files, join(P, A_PY))
    /\ files[join(P, A_PY)].parsed = GoodModule
    /\ isfile(files, join(join(P, V), C_PY))
    /\ files[join(join(P, V), C_PY)].parsed = SyntaxError
    /\ V \notin files_to_ignore
    /\ result.raised

RECURSIVE rstrip(_)
\* url.rstrip('/')
rstrip(url) ==
    IF url # <<>> /\ url[Len(url)] = SEP THEN rstrip(SubSeq(url, 1, Len(url) - 1)) ELSE url

\* the last segment of a URL's path
final_segment(url) == rsplit_last(rstrip(url))

\* C9: the one key of the mapping process_url returns is the last path segment
\* of the URL, also for a URL that ends with '/'; it is never a name taken from
\* the temporary directory.
C9_KeyIsFinalUrlSegment ==
    (/\ pc = "done"
     /\ temp_dirname # NoDir
     /\ ~result.raised) =>
        /\ DOMAIN result.value = {final_segment(file_name)}
        /\ basename(temp_dirname) \notin DOMAIN result.value

====
